---- MODULE Spec2Model ----
(***************************************************************************)
(* Model of the participant-selection engine of assign-bot                 *)
(* (src/src/assign_bot/selector.py) and of the orchestrator that wraps it  *)
(* (src/src/assign_bot/bot.py, _select_assignees / handle_config_input),   *)
(* and of the bot's handlers over its per-chat tables.                     *)
(*                                                                         *)
(* Identifiers (usernames) are the integers 1..NumItems.  Python lists are *)
(* sequences; list index i is sequence position i+1.                       *)
(***************************************************************************)
EXTENDS Integers, Sequences, FiniteSets, TLC

(***************************************************************************)
(* Bounds of the model                                                     *)
(***************************************************************************)
NumItems == 3
MaxRoster == 3
MaxAvail == 2
MaxCount == 2
MaxRun == 7

Items == 1..NumItems

SeqsUpTo(S, n) == UNION {[1..k -> S] : k \in 0..n}

Range(s) == {s[i] : i \in 1..Len(s)}

IsDupFree(s) == \A i, j \in 1..Len(s) : s[i] = s[j] => i = j

Min(a, b) == IF a <= b THEN a ELSE b

\* Argument domains of the public operations.
Rosters == SeqsUpTo(Items, MaxRoster)
Availables == SeqsUpTo(Items, MaxAvail)
Counts == (-1)..MaxCount

\* The bot: chats, the users who write in them, and the handles they use.
NumChats == 2
NumHandles == 2
MaxTasks == 2
MaxSteps == 5

Chats == 1..NumChats
Handles == 1..NumHandles
Users == {"admin", "member"}

\* A field that is None.  A count of None is 0, which "or 1" treats alike.
None == "None"

\* Handlers that change the tables after an await.
Continuations ==
    {"cmd_configure", "cmd_assign", "handle_config_input",
     "handle_description_input"}

\* A dict is a function on its keys.
EmptyTable == [k \in {} |-> None]

Put(table, k, v) ==
    [x \in DOMAIN table \cup {k} |-> IF x = k THEN v ELSE table[x]]

NoPop(table, k) == table

Pop(table, k) == [x \in DOMAIN table \ {k} |-> table[x]]

setdefault(table, k, v) == IF k \in DOMAIN table THEN table ELSE Put(table, k, v)

NoChannel == "no channel"
ChannelIds == {NoChannel, "@channel"}

\* The _select_assignees call of a handler step: what it was asked, the
\* cursor its strategy read, and the chat's last_pick before it.
Call(pol, active, count, pre, prev) ==
    [policy |-> pol, active |-> active, count |-> count, pre |-> pre,
     prev |-> prev]

\* A single round-robin pick: the item returned and the cursor read.
Pick(item, pre) == [item |-> item, pre |-> pre]

NoPick == Pick(0, 0)

NoCall == Call("", <<>>, 0, 0, NoPick)

NoEvent ==
    [handler |-> "none", chat |-> 0, user |-> "", branch |-> "",
     selected |-> <<>>, call |-> NoCall]

(***************************************************************************)
(* SelectionPolicy and the strategy classes                                *)
(***************************************************************************)
ROUND_ROBIN == "round_robin"
RANDOM == "random"
\* A value outside the enumeration, as the tests pass to set_policy.
UNSUPPORTED == "unsupported"

SelectionPolicy == {ROUND_ROBIN, RANDOM}
PolicyArgs == SelectionPolicy \cup {UNSUPPORTED}

RandomStrategy == "RandomStrategy"
RoundRobinStrategy == "RoundRobinStrategy"

\* RoundRobinStrategy._state is Optional[int]; None is modelled by a value
\* no cursor can take.
NoneState == -2

\* Outcome of a call: the returned list, the strategy's _state afterwards,
\* whether the call raised ValueError, and the number of cursor advances the
\* round-robin loop made.
Outcome(sel, st, err) ==
    [selected |-> sel, state |-> st, raised |-> err, attempts |-> 0]

\* `not available`: the emptiness test that opens select_from_available and
\* both strategies' select.
NeverEmpty(available) == FALSE

is_empty(available) == available = <<>>

(***************************************************************************)
(* RandomStrategy.select                                                   *)
(***************************************************************************)
\* random.sample(population, k): every ordered choice of k distinct positions.
SampleWithReplacement(population, k) ==
    {[i \in 1..k |-> population[p[i]]] : p \in [1..k -> 1..Len(population)]}

sample(population, k) ==
    {[i \in 1..k |-> population[p[i]]] :
        p \in {q \in [1..k -> 1..Len(population)] :
                 \A i, j \in 1..k : q[i] = q[j] => i = j}}

\* min(count, len(available)), used by both strategies.
CountUnclamped(count, available) == count

actual_count(count, available) == Min(count, Len(available))

\* A random strategy that keeps the position of its last pick.
RandomRemembersPick(available, count, st) ==
    IF is_empty(available)
    THEN {Outcome(<<>>, st, FALSE)}
    ELSE LET k == actual_count(count, available) IN
         IF k < 0 \/ k > Len(available)
         THEN {Outcome(<<>>, st, TRUE)}
         ELSE {Outcome(s, 0, FALSE) : s \in sample(available, k)}

\* The set of outcomes of RandomStrategy.select; random.sample raises
\* ValueError when k is negative.
RandomStrategy_select(available, count, st) ==
    IF is_empty(available)
    THEN {Outcome(<<>>, st, FALSE)}
    ELSE LET k == actual_count(count, available) IN
         IF k < 0 \/ k > Len(available)
         THEN {Outcome(<<>>, st, TRUE)}
         ELSE {Outcome(s, st, FALSE) : s \in sample(available, k)}

(***************************************************************************)
(* RoundRobinStrategy.select                                               *)
(***************************************************************************)
\* self._state = -1 when it was None
FirstCursorZero(st) == IF st = NoneState THEN 0 ELSE st

initial_state(st) == IF st = NoneState THEN -1 ELSE st

\* max_attempts = len(full_collection) * 2
HalfAttempts(full_collection) == Len(full_collection) \div 2

TripleAttempts(full_collection) == Len(full_collection) * 3

max_attempts(full_collection) == Len(full_collection) * 2

\* self._state = (self._state + 1) % len(full_collection)
AdvanceByTwo(st, full_collection) == (st + 2) % Len(full_collection)

advance(st, full_collection) == (st + 1) % Len(full_collection)

\* if candidate in available_set
AnyCandidate(candidate, available_set) == TRUE

candidate_available(candidate, available_set) == candidate \in available_set

\* The while loop of RoundRobinStrategy.select.
RECURSIVE rr_loop(_, _, _, _, _, _)
rr_loop(full_collection, available_set, k, st, attempts, selected) ==
    IF Len(selected) < k /\ attempts < max_attempts(full_collection)
    THEN LET st2 == advance(st, full_collection)
             candidate == full_collection[st2 + 1]
         IN rr_loop(full_collection, available_set, k, st2, attempts + 1,
                    IF candidate_available(candidate, available_set)
                    THEN Append(selected, candidate)
                    ELSE selected)
    ELSE [Outcome(selected, st, FALSE) EXCEPT !.attempts = attempts]

\* has_full is FALSE when the keyword argument full_collection is missing
\* (get_strategy_kwargs returns {} for a policy other than ROUND_ROBIN).
RoundRobinStrategy_select(available, count, st, has_full, full_collection) ==
    IF is_empty(available)
    THEN {Outcome(<<>>, st, FALSE)}
    ELSE LET st1 == initial_state(st) IN
         IF ~has_full
         THEN {Outcome(<<>>, st1, TRUE)}
         ELSE {rr_loop(full_collection, Range(available),
                       actual_count(count, available), st1, 0, <<>>)}

(***************************************************************************)
(* StrategyMapper                                                          *)
(***************************************************************************)
\* create_strategy: the strategy class for a policy; "raise" for a policy
\* that is not in the map.
create_strategy(p) ==
    IF p = RANDOM THEN RandomStrategy
    ELSE IF p = ROUND_ROBIN THEN RoundRobinStrategy
    ELSE "raise"

\* set_policy: if self.policy != policy
AlwaysChanged(current, p) == TRUE

SamePolicy(current, p) == current = p

policy_changed(current, p) == current # p

\* get_strategy_kwargs: TRUE when full_collection is passed on.
get_strategy_kwargs(p) == p = ROUND_ROBIN

(***************************************************************************)
(* ItemSelector.select_from_available as a function of the selector state  *)
(***************************************************************************)
\* The validation loop: some item of available is not in the collection.
NeverInvalid(available, coll) == FALSE

has_unknown_item(available, coll) ==
    \E i \in 1..Len(available) : available[i] \notin Range(coll)

\* raise ValueError from the validation loop: the strategy is not called
\* and keeps its _state.
ValidationClearsState(st) == Outcome(<<>>, NoneState, TRUE)

validation_error(st) == Outcome(<<>>, st, TRUE)

ItemSelector_select_from_available(coll, pol, strat, st, available, count) ==
    IF is_empty(available)
    THEN {Outcome(<<>>, st, FALSE)}
    ELSE IF has_unknown_item(available, coll)
    THEN {validation_error(st)}
    ELSE IF strat = RandomStrategy
    THEN RandomStrategy_select(available, count, st)
    ELSE RoundRobinStrategy_select(available, count, st,
                                   get_strategy_kwargs(pol), coll)

\* ItemSelector.select: select_from_available(self.collection, count)
SelectDefaultCount(coll, pol, strat, st, count) ==
    ItemSelector_select_from_available(coll, pol, strat, st, coll, 1)

ItemSelector_select(coll, pol, strat, st, count) ==
    ItemSelector_select_from_available(coll, pol, strat, st, coll, count)

(***************************************************************************)
(* State                                                                   *)
(***************************************************************************)
VARIABLES
    collection,     \* ItemSelector.collection
    policy,         \* ItemSelector.policy
    strategy,       \* class of ItemSelector._strategy
    rr_state,       \* RoundRobinStrategy._state (NoneState for RandomStrategy)
    usernames,      \* UserConfig.usernames
    op,             \* the operation that ran last
    arg_available,  \* its available / active argument
    arg_count,      \* its count argument
    arg_policy,     \* its policy argument ("" when it has none)
    arg_full,       \* the full_collection passed to a strategy called directly;
                    \* for _select_assignees, the roster it found at entry
    attempts,       \* cursor advances made by the round-robin loop
    result,         \* the list it returned
    raised,         \* TRUE when it raised ValueError
    pre_state,      \* _state when the strategy was asked to select
    run,            \* length of the current run of single picks with
                    \* available = collection that began with _state None
    waiting,        \* per item: consecutive single round-robin picks in
                    \* which it was available and not selected
    same_avail,     \* available set of the current run of single picks
    same_results,   \* the last |same_avail| items that run returned
    CHAT_STATE,     \* bot.CHAT_STATE: chat id -> UserConfig
    EXPECT_CONFIG,  \* bot.EXPECT_CONFIG: chats whose next text is the list
    PENDING,        \* bot.PENDING: chat id -> PendingAssign
    ASSIGN_CHANNEL_ID, \* bot.ASSIGN_CHANNEL_ID, fixed when the process starts
    tasks,          \* handlers suspended in an await, per continuation
    event,          \* what the last handler step did
    last_pick,      \* per chat: the last selection, when it was a single
                    \* round-robin pick and the roster was not replaced since
    consumed,       \* per chat: texts taken as the participant list since
                    \* /configure last registered its expectation
    steps,          \* handler steps taken, counted where they are bounded
    assignees,      \* _post_assignment: its assignees argument
    target_chat,    \* _post_assignment: its target_chat argument
    post_pc,        \* _post_assignment: the await it has reached
    outbox          \* _post_assignment: the messages it got sent, in order

engine == <<collection, policy, strategy, rr_state>>
observed == <<op, arg_available, arg_count, arg_policy, arg_full, attempts,
              result, raised, pre_state>>
history == <<run, waiting, same_avail, same_results>>
bot == <<CHAT_STATE, EXPECT_CONFIG, PENDING, ASSIGN_CHANNEL_ID, tasks, event,
         last_pick, consumed, steps>>
posting == <<assignees, target_chat, post_pc, outbox>>
vars == <<collection, policy, strategy, rr_state, usernames, op,
          arg_available, arg_count, arg_policy, arg_full, attempts, result,
          raised, pre_state, run, waiting, same_avail, same_results,
          CHAT_STATE, EXPECT_CONFIG, PENDING, ASSIGN_CHANNEL_ID, tasks, event,
          last_pick, consumed, steps, assignees, target_chat, post_pc,
          outbox>>

NoWaiting == [m \in Items |-> 0]

LastN(s, n) == IF Len(s) <= n THEN s ELSE SubSeq(s, Len(s) - n + 1, Len(s))

ObserveCall(name, available, count, pol, full, out, pre) ==
    /\ op' = name
    /\ arg_available' = available
    /\ arg_count' = count
    /\ arg_policy' = pol
    /\ arg_full' = full
    /\ attempts' = out.attempts
    /\ result' = out.selected
    /\ raised' = out.raised
    /\ pre_state' = pre
    /\ UNCHANGED <<bot, posting>>

Observe(name, available, count, out, pre) ==
    ObserveCall(name, available, count, "", <<>>, out, pre)

ClearHistory ==
    /\ run' = 0
    /\ waiting' = NoWaiting
    /\ same_avail' = {}
    /\ same_results' = <<>>

\* A single pick: one item asked of the round-robin strategy, from a
\* non-empty available, and the call returned.
IsSinglePick(strat, available, count, out) ==
    /\ strat = RoundRobinStrategy
    /\ count = 1
    /\ available # <<>>
    /\ ~out.raised

\* History after a selection.  fresh is TRUE when the requested policy
\* differs from the current one or the collection was replaced inside the
\* same operation, before the pick.
RecordPick(strat, coll, available, count, out, pre, fresh) ==
    IF IsSinglePick(strat, available, count, out)
    THEN /\ run' = IF available # coll THEN 0
                   ELSE IF pre = NoneState THEN 1
                   ELSE IF ~fresh /\ run \in 1..(MaxRun - 1) THEN run + 1
                   ELSE 0
         /\ waiting' = [m \in Items |->
                          IF m \in Range(available) /\ m \notin Range(out.selected)
                          THEN (IF fresh THEN 0 ELSE waiting[m]) + 1
                          ELSE 0]
         /\ same_avail' = Range(available)
         /\ same_results' =
                IF ~fresh /\ same_avail = Range(available)
                THEN LastN(same_results \o out.selected,
                           Cardinality(Range(available)))
                ELSE out.selected
    ELSE ClearHistory

(***************************************************************************)
(* Initial state: ItemSelector() / UserConfig() as constructed             *)
(***************************************************************************)
EngineInit ==
    /\ collection = <<>>
    /\ policy \in SelectionPolicy
    /\ strategy = create_strategy(policy)
    /\ rr_state = NoneState
    /\ usernames = <<>>
    /\ op = "init"
    /\ arg_available = <<>>
    /\ arg_count = 0
    /\ arg_policy = ""
    /\ arg_full = <<>>
    /\ attempts = 0
    /\ result = <<>>
    /\ raised = FALSE
    /\ pre_state = NoneState
    /\ run = 0
    /\ waiting = NoWaiting
    /\ same_avail = {}
    /\ same_results = <<>>

\* The bot's tables when the module is loaded: all empty.
TablesInit ==
    /\ CHAT_STATE = EmptyTable
    /\ EXPECT_CONFIG = {}
    /\ PENDING = EmptyTable
    /\ tasks = [t \in Continuations \X Chats |-> 0]
    /\ event = NoEvent
    /\ last_pick = [c \in Chats |-> NoPick]
    /\ consumed = [c \in Chats |-> 0]
    /\ steps = 0

\* No _post_assignment call is under way.
PostIdle ==
    /\ assignees = <<>>
    /\ target_chat = None
    /\ post_pc = "idle"
    /\ outbox = <<>>

Init ==
    /\ EngineInit
    /\ TablesInit
    /\ ASSIGN_CHANNEL_ID = NoChannel
    /\ PostIdle

(***************************************************************************)
(* ItemSelector operations                                                 *)
(***************************************************************************)
\* SelectionStrategy.reset: RoundRobinStrategy clears _state, RandomStrategy
\* has none.
KeepState(st) == st

reset(st) == NoneState

set_collection(items) ==
    /\ collection' = items
    /\ rr_state' = reset(rr_state)
    /\ UNCHANGED <<policy, strategy, usernames>>
    /\ Observe("set_collection", items, 0, Outcome(<<>>, rr_state', FALSE),
               rr_state)
    /\ ClearHistory

set_policy(p) ==
    /\ IF policy_changed(policy, p)
       THEN /\ policy' = p
            /\ IF create_strategy(p) = "raise"
               THEN /\ UNCHANGED <<strategy, rr_state>>
                    /\ raised' = TRUE
               ELSE /\ strategy' = create_strategy(p)
                    /\ rr_state' = NoneState
                    /\ raised' = FALSE
       ELSE /\ UNCHANGED <<policy, strategy, rr_state>>
            /\ raised' = FALSE
    /\ UNCHANGED <<collection, usernames>>
    /\ op' = "set_policy"
    /\ arg_available' = <<>>
    /\ arg_count' = 0
    /\ arg_policy' = p
    /\ arg_full' = <<>>
    /\ attempts' = 0
    /\ result' = <<>>
    /\ pre_state' = rr_state
    /\ UNCHANGED <<bot, posting>>
    /\ IF policy # p THEN ClearHistory ELSE UNCHANGED history

select_from_available(available, count) ==
    \E out \in ItemSelector_select_from_available(collection, policy, strategy,
                                                  rr_state, available, count) :
        /\ rr_state' = out.state
        /\ UNCHANGED <<collection, policy, strategy, usernames>>
        /\ Observe("select_from_available", available, count, out, rr_state)
        /\ RecordPick(strategy, collection, available, count, out, rr_state,
                      FALSE)

select(count) ==
    \E out \in ItemSelector_select(collection, policy, strategy, rr_state,
                                   count) :
        /\ rr_state' = out.state
        /\ UNCHANGED <<collection, policy, strategy, usernames>>
        /\ Observe("select", collection, count, out, rr_state)
        /\ RecordPick(strategy, collection, collection, count, out, rr_state,
                      FALSE)

\* A reset that rebuilds the selector with its defaults.
reset_state_reinit ==
    /\ rr_state' = NoneState
    /\ collection' = <<>>
    /\ policy' = RANDOM
    /\ strategy' = RandomStrategy
    /\ UNCHANGED usernames
    /\ Observe("reset_state", <<>>, 0, Outcome(<<>>, NoneState, FALSE),
               rr_state)
    /\ ClearHistory

reset_state ==
    /\ rr_state' = reset(rr_state)
    /\ UNCHANGED <<collection, policy, strategy, usernames>>
    /\ Observe("reset_state", <<>>, 0, Outcome(<<>>, rr_state', FALSE),
               rr_state)
    /\ ClearHistory

Next ==
    \/ \E items \in Rosters : set_collection(items)
    \/ \E p \in PolicyArgs : set_policy(p)
    \/ \E available \in Availables, count \in Counts :
          select_from_available(available, count)
    \/ \E count \in Counts : select(count)
    \/ reset_state

Spec == Init /\ [][Next]_vars

(***************************************************************************)
(* The strategy objects called directly, as the strategy tests do          *)
(***************************************************************************)
\* The full_collection arguments: [1], [1,2], ... and the empty list.  Every
\* duplicate-free list is one of these up to a renaming of the items, and
\* available ranges over all lists, disjoint ones included.
FullCollections ==
    {[i \in 1..k |-> i] : k \in 0..Min(MaxRoster, NumItems)}

\* strategy.select(available, count, full_collection=...); has_full is FALSE
\* when the keyword is left out.
strategy_select(available, count, has_full, full_collection) ==
    \E out \in (IF strategy = RandomStrategy
                THEN RandomStrategy_select(available, count, rr_state)
                ELSE RoundRobinStrategy_select(available, count, rr_state,
                                               has_full, full_collection)) :
        /\ rr_state' = out.state
        /\ UNCHANGED <<collection, policy, strategy, usernames>>
        /\ ObserveCall(IF has_full THEN "strategy_select"
                       ELSE "strategy_select_no_full",
                       available, count, "", full_collection, out, rr_state)
        /\ ClearHistory

\* strategy.reset()
strategy_reset ==
    /\ rr_state' = reset(rr_state)
    /\ UNCHANGED <<collection, policy, strategy, usernames>>
    /\ Observe("strategy_reset", <<>>, 0, Outcome(<<>>, rr_state', FALSE),
               rr_state)
    /\ ClearHistory

NextStrategy ==
    \/ \E available \in Availables, count \in Counts,
          full_collection \in FullCollections :
          strategy_select(available, count, TRUE, full_collection)
    \/ \E available \in Availables, count \in Counts :
          strategy_select(available, count, FALSE, <<>>)
    \/ strategy_reset

SpecStrategy == Init /\ [][NextStrategy]_vars

(***************************************************************************)
(* The orchestrator (bot.py)                                               *)
(***************************************************************************)
\* _parse_usernames: deduplicate preserving the order of first occurrence.
RECURSIVE parse_usernames_from(_, _)
parse_usernames_from(tokens, seen) ==
    IF tokens = <<>> THEN <<>>
    ELSE IF Head(tokens) \in Range(seen)
    THEN parse_usernames_from(Tail(tokens), seen)
    ELSE <<Head(tokens)>> \o
         parse_usernames_from(Tail(tokens), Append(seen, Head(tokens)))

parse_usernames(tokens) == parse_usernames_from(tokens, <<>>)

\* handle_config_input: the state change of a configuration message.
handle_config_input(tokens) ==
    LET names == parse_usernames(tokens) IN
    /\ IF names = <<>>
       THEN UNCHANGED <<usernames, collection, rr_state>>
       ELSE /\ usernames' = names
            /\ collection' = names
            /\ rr_state' = reset(rr_state)
    /\ UNCHANGED <<policy, strategy>>
    /\ Observe("handle_config_input", <<>>, 0,
               Outcome(<<>>, rr_state', FALSE), rr_state)
    /\ ClearHistory

\* valid_active = [user for user in active if user in state.usernames]
ActiveUnfiltered(active, names) == active

RECURSIVE valid_active(_, _)
valid_active(active, names) ==
    IF active = <<>> THEN <<>>
    ELSE IF Head(active) \in Range(names)
    THEN <<Head(active)>> \o valid_active(Tail(active), names)
    ELSE valid_active(Tail(active), names)

\* list(pending.active_selected): the elements of a set in any order.
ActiveLists == {a \in Availables : IsDupFree(a)}

\* UserConfig: the username list and the fields of its ItemSelector.
UserConfig(names, coll, pol, strat, st) ==
    [usernames |-> names, collection |-> coll, policy |-> pol,
     strategy |-> strat, state |-> st]

\* The retry runs against the configured list:
\* state.selector.set_collection(state.usernames).
NoResync(cfg) == cfg.collection

resync(cfg) == cfg.usernames

\* One return of _select_assignees: the list returned, the state it leaves,
\* and the strategy call that produced the list (path, avail, k, pre).
Selection(sel, err, n, cfg, path, avail, k, pre) ==
    [selected |-> sel, raised |-> err, attempts |-> n, cfg |-> cfg,
     path |-> path, avail |-> avail, k |-> k, pre |-> pre]

\* _select_assignees(policy, active, state, count): every return it can make.
SelectAssignees(p, active, cfg, count) ==
    IF is_empty(active)
    THEN {Selection(<<>>, FALSE, 0, cfg, "empty", active, count, cfg.state)}
    ELSE LET switch == policy_changed(cfg.policy, p)
             pol1 == IF switch THEN p ELSE cfg.policy
             strat1 == IF switch THEN create_strategy(p) ELSE cfg.strategy
             st1 == IF switch THEN NoneState ELSE cfg.state
             k1 == Min(count, Len(active))
             valid == valid_active(active, cfg.usernames)
             k2 == Min(count, Len(valid))
             st2(out1) == reset(out1.state)
         IN
         UNION {
           IF ~out1.raised
           THEN {Selection(out1.selected, FALSE, out1.attempts,
                           UserConfig(cfg.usernames, cfg.collection, pol1,
                                      strat1, out1.state),
                           "normal", active, k1, st1)}
           ELSE IF valid = <<>>
           THEN {Selection(<<>>, FALSE, 0,
                           UserConfig(cfg.usernames, cfg.collection, pol1,
                                      strat1, out1.state),
                           "no_valid", active, k1, st1)}
           ELSE {Selection(out2.selected, out2.raised, out2.attempts,
                           UserConfig(cfg.usernames, resync(cfg), pol1,
                                      strat1, out2.state),
                           "retry", valid, k2, st2(out1)) :
                 out2 \in ItemSelector_select_from_available(
                              resync(cfg), pol1, strat1, st2(out1), valid,
                              k2)}
           : out1 \in ItemSelector_select_from_available(
                          cfg.collection, pol1, strat1, st1, active, k1)}

select_assignees(p, active, count) ==
    \E r \in SelectAssignees(p, active,
                             UserConfig(usernames, collection, policy,
                                        strategy, rr_state), count) :
        /\ collection' = r.cfg.collection
        /\ policy' = r.cfg.policy
        /\ strategy' = r.cfg.strategy
        /\ rr_state' = r.cfg.state
        /\ UNCHANGED usernames
        /\ ObserveCall("select_assignees", active, count, p, collection,
                       [Outcome(r.selected, r.cfg.state, r.raised)
                            EXCEPT !.attempts = r.attempts], r.pre)
        /\ IF r.path \in {"normal", "retry"}
           THEN RecordPick(r.cfg.strategy, r.cfg.collection, r.avail, r.k,
                           Outcome(r.selected, r.cfg.state, r.raised), r.pre,
                           r.path = "retry" \/ policy # p)
           ELSE ClearHistory

NextOrch ==
    \/ \E tokens \in Rosters : handle_config_input(tokens)
    \/ \E p \in SelectionPolicy, active \in ActiveLists, count \in 1..MaxCount :
          select_assignees(p, active, count)
    \/ \E available \in ActiveLists, count \in Counts :
          select_from_available(available, count)
    \/ \E q \in PolicyArgs : set_policy(q)
    \/ reset_state

SpecOrch == Init /\ [][NextOrch]_vars

(***************************************************************************)
(* _select_assignees on any UserConfig                                     *)
(***************************************************************************)
\* state.usernames = names: the username list is a plain attribute, which
\* a caller can assign without telling the selector.
assign_usernames(names) ==
    /\ usernames' = names
    /\ UNCHANGED <<collection, policy, strategy, rr_state>>
    /\ Observe("assign_usernames", names, 0, Outcome(<<>>, rr_state, FALSE),
               rr_state)
    /\ ClearHistory

\* The username lists and rosters a chat can hold: duplicate-free, as
\* _parse_usernames and the default list make them.
UsernameLists == {names \in Rosters : IsDupFree(names)}

NextPair ==
    \/ \E names \in UsernameLists : assign_usernames(names)
    \/ \E items \in UsernameLists : set_collection(items)
    \/ \E p \in SelectionPolicy, active \in ActiveLists, count \in 1..MaxCount :
          select_assignees(p, active, count)

SpecPair == Init /\ [][NextPair]_vars

(***************************************************************************)
(* The bot's handlers (bot.py).  A handler runs until it awaits a send;    *)
(* other handlers run while it is suspended.  A handler that changes the   *)
(* tables after an await is suspended in tasks and resumed by its _resume  *)
(* action.  PendingAssign.message_id_with_keyboard is written and never    *)
(* read by the handlers, and is left out.                                  *)
(***************************************************************************)
ADMIN_USER_IDS == {"admin"}

DEFAULT_USERNAMES == [i \in 1..NumHandles |-> i]

\* The texts of messages: lists of handles, the empty one holding none.
Texts == SeqsUpTo(Handles, NumHandles)

\* callback data: cancel, next, toggle::<username>
ToggleData ==
    {<<"cancel", 0>>, <<"next", 0>>} \cup {<<"toggle", h>> : h \in Handles}

PolicyKeys == {"round", "random", "other"}

CountData == 0..MaxCount

\* event after a text message: the branch handle_text_steps took, the
\* sender of a text taken as the participant list, and what was selected.
Event(handler, chat_id, user, branch, sel) ==
    [handler |-> handler, chat |-> chat_id, user |-> user, branch |-> branch,
     selected |-> sel, call |-> NoCall]

\* event after a command, a callback or the resumption of a handler: the
\* chat it was for.
OtherEvent(chat_id) == Event("other", chat_id, "", "", <<>>)

\* event after a step that starts or ends a dialog: "dialog_started" by
\* /assign, "cancel" by the cancel button, "description_done" when
\* handle_description_input returns.
DialogEvent(chat_id, branch) == Event("other", chat_id, "", branch, <<>>)

\* The key of a chat in CHAT_STATE, PENDING and EXPECT_CONFIG.
OneKey(chat_id) == 1

chat_key(chat_id) == chat_id

\* UserConfig()
NewUserConfig == UserConfig(<<>>, <<>>, RANDOM, RandomStrategy, NoneState)

\* _get_chat_state: the table after the call.
get_chat_state(table, chat_id) ==
    setdefault(table, chat_key(chat_id), NewUserConfig)

\* PendingAssign()
PendingAssign(active, pol, count, step) ==
    [active_selected |-> active, policy |-> pol, count |-> count,
     description |-> "", step |-> step]

\* message.text of a message that reached handle_description_input: some
\* non-empty text.
SomeText == "text"

NewPending == PendingAssign({}, None, 0, None)

\* state.usernames = names; state.selector.set_collection(names)
UsernamesOnly(cfg, names) ==
    UserConfig(names, cfg.collection, cfg.policy, cfg.strategy, cfg.state)

configured(cfg, names) ==
    UserConfig(names, names, cfg.policy, cfg.strategy, reset(cfg.state))

RECURSIVE Total(_, _)
Total(f, S) ==
    IF S = {} THEN 0
    ELSE LET x == CHOOSE y \in S : TRUE IN f[x] + Total(f, S \ {x})

Suspended == Total(tasks, DOMAIN tasks)

Suspend(handler, chat_id) ==
    /\ Suspended < MaxTasks
    /\ tasks' = [tasks EXCEPT ![<<handler, chat_id>>] = @ + 1]

Resume(handler, chat_id) ==
    /\ tasks[<<handler, chat_id>>] > 0
    /\ tasks' = [tasks EXCEPT ![<<handler, chat_id>>] = @ - 1]

EngineUnchanged == UNCHANGED <<engine, usernames, observed, history>>

\* last_pick of a chat is forgotten when a handler replaces its roster.
ForgetPick(chat_id) == last_pick' = [last_pick EXCEPT ![chat_id] = NoPick]

\* cmd_configure (and menu_configure, which calls it): up to the await of
\* the prompt.
cmd_configure(chat_id, user) ==
    /\ IF user \notin ADMIN_USER_IDS
       THEN /\ UNCHANGED <<CHAT_STATE, tasks>>
            /\ event' = OtherEvent(chat_id)
       ELSE /\ CHAT_STATE' = get_chat_state(CHAT_STATE, chat_id)
            /\ Suspend("cmd_configure", chat_id)
            /\ event' = OtherEvent(chat_id)
    /\ UNCHANGED <<EXPECT_CONFIG, PENDING, ASSIGN_CHANNEL_ID, last_pick,
                   consumed>>
    /\ EngineUnchanged

\* cmd_configure after the await: sent is FALSE when the send raised
\* TelegramAPIError.
cmd_configure_resume(chat_id, sent) ==
    /\ Resume("cmd_configure", chat_id)
    /\ EXPECT_CONFIG' = IF sent THEN EXPECT_CONFIG \cup {chat_key(chat_id)}
                        ELSE EXPECT_CONFIG
    /\ event' = OtherEvent(chat_id)
    /\ consumed' = IF sent THEN [consumed EXCEPT ![chat_id] = 0] ELSE consumed
    /\ UNCHANGED <<CHAT_STATE, PENDING, ASSIGN_CHANNEL_ID, last_pick>>
    /\ EngineUnchanged

\* cmd_assign from PENDING.setdefault on: the dialog starts over.
start_dialog(table, chat_id) ==
    Put(table, chat_key(chat_id), PendingAssign({}, None, 0, "configure"))

\* cmd_assign (and menu_assign): with an empty username list it installs the
\* defaults and awaits their announcement before it starts the dialog.
cmd_assign(chat_id) ==
    LET table == get_chat_state(CHAT_STATE, chat_id)
        state == table[chat_key(chat_id)]
    IN
    /\ IF state.usernames = <<>>
       THEN /\ CHAT_STATE' = Put(table, chat_key(chat_id),
                                 configured(state, DEFAULT_USERNAMES))
            /\ Suspend("cmd_assign", chat_id)
            /\ UNCHANGED PENDING
            /\ ForgetPick(chat_id)
            /\ event' = OtherEvent(chat_id)
       ELSE /\ CHAT_STATE' = table
            /\ PENDING' = start_dialog(PENDING, chat_id)
            /\ UNCHANGED <<tasks, last_pick>>
            /\ event' = DialogEvent(chat_id, "dialog_started")
    /\ UNCHANGED <<EXPECT_CONFIG, ASSIGN_CHANNEL_ID, consumed>>
    /\ EngineUnchanged

cmd_assign_resume(chat_id) ==
    /\ Resume("cmd_assign", chat_id)
    /\ PENDING' = start_dialog(PENDING, chat_id)
    /\ event' = DialogEvent(chat_id, "dialog_started")
    /\ UNCHANGED <<CHAT_STATE, EXPECT_CONFIG, ASSIGN_CHANNEL_ID, last_pick,
                   consumed>>
    /\ EngineUnchanged

\* handle_toggle: cancel, next and toggle::<username>.
handle_toggle(chat_id, data) ==
    LET table == get_chat_state(CHAT_STATE, chat_id)
        state == table[chat_key(chat_id)]
        pendings == setdefault(PENDING, chat_key(chat_id), NewPending)
        pending == pendings[chat_key(chat_id)]
        username == data[2]
    IN
    /\ CHAT_STATE' = table
    /\ PENDING' =
         IF data[1] = "cancel" THEN Pop(pendings, chat_key(chat_id))
         ELSE IF data[1] = "next"
         THEN IF pending.active_selected = {} THEN pendings
              ELSE Put(pendings, chat_key(chat_id),
                       [pending EXCEPT !.step = "policy"])
         ELSE IF username \in pending.active_selected
         THEN Put(pendings, chat_key(chat_id),
                  [pending EXCEPT !.active_selected = @ \ {username}])
         ELSE IF username \in Range(state.usernames)
         THEN Put(pendings, chat_key(chat_id),
                  [pending EXCEPT !.active_selected = @ \cup {username}])
         ELSE pendings
    /\ event' = IF data[1] = "cancel" THEN DialogEvent(chat_id, "cancel")
                ELSE OtherEvent(chat_id)
    /\ UNCHANGED <<EXPECT_CONFIG, ASSIGN_CHANNEL_ID, tasks, last_pick,
                   consumed>>
    /\ EngineUnchanged

handle_policy(chat_id, policy_key) ==
    LET pendings == setdefault(PENDING, chat_key(chat_id), NewPending)
        pending == pendings[chat_key(chat_id)]
    IN
    /\ PENDING' =
         IF policy_key = "round"
         THEN Put(pendings, chat_key(chat_id),
                  [pending EXCEPT !.policy = ROUND_ROBIN,
                                  !.step = "await_count"])
         ELSE IF policy_key = "random"
         THEN Put(pendings, chat_key(chat_id),
                  [pending EXCEPT !.policy = RANDOM, !.step = "await_count"])
         ELSE pendings
    /\ event' = OtherEvent(chat_id)
    /\ UNCHANGED <<CHAT_STATE, EXPECT_CONFIG, ASSIGN_CHANNEL_ID, tasks,
                   last_pick, consumed>>
    /\ EngineUnchanged

handle_count(chat_id, count) ==
    LET pendings == setdefault(PENDING, chat_key(chat_id), NewPending)
        pending == pendings[chat_key(chat_id)]
    IN
    /\ PENDING' =
         IF count \in {1, 2, 3}
         THEN Put(pendings, chat_key(chat_id),
                  [pending EXCEPT !.count = count,
                                  !.step = "await_description"])
         ELSE pendings
    /\ event' = OtherEvent(chat_id)
    /\ UNCHANGED <<CHAT_STATE, EXPECT_CONFIG, ASSIGN_CHANNEL_ID, tasks,
                   last_pick, consumed>>
    /\ EngineUnchanged

\* list(pending.active_selected): the members of the set in some order.
Listings(S) == {a \in [1..Cardinality(S) -> S] : Range(a) = S}

\* handle_config_input for a chat, up to the await of its reply.
handle_config_input_in(chat_id, user, text) ==
    LET table == get_chat_state(CHAT_STATE, chat_id)
        state == table[chat_key(chat_id)]
        names == parse_usernames(text)
    IN
    /\ CHAT_STATE' = IF names = <<>> THEN table
                     ELSE Put(table, chat_key(chat_id),
                              configured(state, names))
    /\ Suspend("handle_config_input", chat_id)
    /\ event' = Event("handle_text_steps", chat_id, user,
                      IF names = <<>> THEN "config_empty" ELSE "config", <<>>)
    /\ IF names = <<>> THEN UNCHANGED last_pick ELSE ForgetPick(chat_id)
    /\ consumed' = [consumed EXCEPT ![chat_id] = Min(@ + 1, 2)]
    /\ UNCHANGED PENDING

\* if not ASSIGN_CHANNEL_ID
AlwaysConfigured(channel_id) == TRUE

channel_configured(channel_id) == channel_id # NoChannel

\* handle_description_input, up to the await of the first send.  A
\* ValueError out of _select_assignees ends the handler.
handle_description_input_in(chat_id) ==
    LET table == get_chat_state(CHAT_STATE, chat_id)
        state == table[chat_key(chat_id)]
        pendings == setdefault(PENDING, chat_key(chat_id), NewPending)
        pending == pendings[chat_key(chat_id)]
        p == IF pending.policy = None THEN ROUND_ROBIN ELSE pending.policy
        count == IF pending.count = 0 THEN 1 ELSE pending.count
    IN
    /\ PENDING' = Put(pendings, chat_key(chat_id),
                      [pending EXCEPT !.description = SomeText])
    /\ UNCHANGED consumed
    /\ IF ~channel_configured(ASSIGN_CHANNEL_ID)
       THEN /\ CHAT_STATE' = table
            /\ Suspend("handle_description_input", chat_id)
            /\ UNCHANGED last_pick
            /\ event' = Event("handle_text_steps", chat_id, "",
                              "no_channel", <<>>)
       ELSE \E active \in Listings(pending.active_selected) :
            \E r \in SelectAssignees(p, active, state, count) :
                /\ CHAT_STATE' = Put(table, chat_key(chat_id), r.cfg)
                /\ IF r.raised THEN UNCHANGED tasks
                   ELSE Suspend("handle_description_input", chat_id)
                /\ last_pick' =
                     [last_pick EXCEPT ![chat_id] =
                        IF /\ p = ROUND_ROBIN
                           /\ count = 1
                           /\ Len(r.selected) = 1
                        THEN Pick(r.selected[1], r.pre)
                        ELSE NoPick]
                /\ event' =
                     [Event("handle_text_steps", chat_id, "",
                            IF r.raised THEN "raised" ELSE "selected",
                            r.selected)
                      EXCEPT !.call = Call(p, active, count, r.pre,
                                           last_pick[chat_id])]

\* handle_text_steps: a text message that is no command and no menu button.
handle_text_steps(chat_id, user, text) ==
    /\ IF chat_key(chat_id) \in EXPECT_CONFIG
       THEN handle_config_input_in(chat_id, user, text)
       ELSE IF /\ chat_key(chat_id) \in DOMAIN PENDING
               /\ PENDING[chat_key(chat_id)].step = "await_description"
       THEN handle_description_input_in(chat_id)
       ELSE /\ UNCHANGED <<CHAT_STATE, PENDING, tasks, last_pick, consumed>>
            /\ event' = Event("handle_text_steps", chat_id, "", "ignored",
                              <<>>)
    /\ UNCHANGED <<EXPECT_CONFIG, ASSIGN_CHANNEL_ID>>
    /\ EngineUnchanged

\* handle_text_steps after handle_config_input returned.
handle_config_input_resume(chat_id) ==
    /\ Resume("handle_config_input", chat_id)
    /\ EXPECT_CONFIG' = EXPECT_CONFIG \ {chat_key(chat_id)}
    /\ event' = OtherEvent(chat_id)
    /\ UNCHANGED <<CHAT_STATE, PENDING, ASSIGN_CHANNEL_ID, last_pick,
                   consumed>>
    /\ EngineUnchanged

\* handle_description_input after its sends: PENDING.pop(chat_id, None).
handle_description_input_resume(chat_id) ==
    /\ Resume("handle_description_input", chat_id)
    /\ PENDING' = Pop(PENDING, chat_key(chat_id))
    /\ event' = DialogEvent(chat_id, "description_done")
    /\ UNCHANGED <<CHAT_STATE, EXPECT_CONFIG, ASSIGN_CHANNEL_ID, last_pick,
                   consumed>>
    /\ EngineUnchanged

\* The process starts with a fresh selector module and empty tables; the
\* channel comes from the environment.
InitBot ==
    /\ EngineInit
    /\ policy = RANDOM
    /\ TablesInit
    /\ ASSIGN_CHANNEL_ID \in ChannelIds
    /\ PostIdle

\* One handler step for a chat among chats.
BotStep(chats) ==
    \/ \E c \in chats, u \in Users : cmd_configure(c, u)
    \/ \E c \in chats, sent \in BOOLEAN : cmd_configure_resume(c, sent)
    \/ \E c \in chats : cmd_assign(c)
    \/ \E c \in chats : cmd_assign_resume(c)
    \/ \E c \in chats, data \in ToggleData : handle_toggle(c, data)
    \/ \E c \in chats, k \in PolicyKeys : handle_policy(c, k)
    \/ \E c \in chats, n \in CountData : handle_count(c, n)
    \/ \E c \in chats, u \in Users, text \in Texts :
          handle_text_steps(c, u, text)
    \/ \E c \in chats : handle_config_input_resume(c)
    \/ \E c \in chats : handle_description_input_resume(c)

\* The handlers of one chat, interleaved at their awaits.
NextBot == BotStep({1}) /\ UNCHANGED <<steps, posting>>

SpecBot == InitBot /\ [][NextBot]_vars

\* The handlers of all chats, for the first MaxSteps steps.
NextChats ==
    /\ steps < MaxSteps
    /\ steps' = steps + 1
    /\ BotStep(Chats)
    /\ UNCHANGED posting

SpecChats == InitBot /\ [][NextChats]_vars

(***************************************************************************)
(* _post_assignment (bot.py).  One action per await: the send it waited    *)
(* for either went out (sent) or raised TelegramAPIError.  outbox holds    *)
(* what went out; a message's id is its position in outbox.                *)
(***************************************************************************)
\* message.chat.id of the description message.
MessageChat == "chat"

TargetChats == {None, "@channel"}

\* The lists _select_assignees returns to the handler.
AssigneeLists == {a \in Rosters : IsDupFree(a)}

\* is_channel = target_chat is not None
is_channel == target_chat # None

\* chat_id = target_chat if is_channel else message.chat.id
destination == IF is_channel THEN target_chat ELSE MessageChat

\* message.answer(text): a reply in the chat of the description message.
Reply(text) ==
    [kind |-> "reply", to |-> MessageChat, text |-> text, options |-> <<>>,
     reply_to |-> 0, anonymous |-> FALSE]

\* The assignment text, "Назначены: ..." with the description.
AssignmentText(to, names) ==
    [kind |-> "text", to |-> to, text |-> "assigned", options |-> names,
     reply_to |-> 0, anonymous |-> FALSE]

\* send_poll: one option per assignee, linked to the text message.
Poll(to, names, message_id, anonymous) ==
    [kind |-> "poll", to |-> to, text |-> "done?", options |-> names,
     reply_to |-> message_id, anonymous |-> anonymous]

Sent(sent, message) == IF sent THEN Append(outbox, message) ELSE outbox

\* if not assignees: await message.answer(...); return
post_nobody(sent) ==
    /\ post_pc = "start"
    /\ is_empty(assignees)
    /\ outbox' = Sent(sent, Reply("nobody"))
    /\ post_pc' = "done"
    /\ UNCHANGED <<assignees, target_chat>>

\* Where _post_assignment goes after the send of the text message.
PollAnyway(sent) == "text_sent"

after_text(sent) ==
    IF sent THEN "text_sent"
    ELSE IF is_channel THEN "text_failed"
    ELSE "done"

\* The text message: bot.send_message to the channel, or message.answer.
post_text(sent) ==
    /\ post_pc = "start"
    /\ ~is_empty(assignees)
    /\ outbox' = Sent(sent, AssignmentText(destination, assignees))
    /\ post_pc' = after_text(sent)
    /\ UNCHANGED <<assignees, target_chat>>

\* except TelegramAPIError, for a channel: await message.answer(...); return
post_failure_notice(sent) ==
    /\ post_pc = "text_failed"
    /\ outbox' = Sent(sent, Reply("not sent"))
    /\ post_pc' = "done"
    /\ UNCHANGED <<assignees, target_chat>>

\* send_poll with reply_to_message_id = sent.message_id
post_poll(sent) ==
    /\ post_pc = "text_sent"
    /\ outbox' = Sent(sent, Poll(destination, assignees, Len(outbox),
                                 is_channel))
    /\ post_pc' = "done"
    /\ UNCHANGED <<assignees, target_chat>>

\* A call of _post_assignment with any assignee list and target.
InitPost ==
    /\ EngineInit
    /\ policy = RANDOM
    /\ TablesInit
    /\ ASSIGN_CHANNEL_ID = NoChannel
    /\ assignees \in AssigneeLists
    /\ target_chat \in TargetChats
    /\ post_pc = "start"
    /\ outbox = <<>>

NextPost ==
    /\ \/ \E sent \in BOOLEAN : post_nobody(sent)
       \/ \E sent \in BOOLEAN : post_text(sent)
       \/ \E sent \in BOOLEAN : post_failure_notice(sent)
       \/ \E sent \in BOOLEAN : post_poll(sent)
    /\ UNCHANGED <<engine, usernames, observed, history, bot>>

SpecPost == InitPost /\ [][NextPost]_vars

(***************************************************************************)
(* Properties of the selection engine                                      *)
(***************************************************************************)
EnginePicks == {"select_from_available", "select"}
Picks == EnginePicks \cup {"select_assignees"}

\* The last operation was a pick that the round-robin strategy answered.
RoundRobinPicked ==
    /\ op \in EnginePicks
    /\ policy = ROUND_ROBIN
    /\ strategy = RoundRobinStrategy
    /\ arg_available # <<>>
    /\ ~raised

\* The cursor a pick started from, with None read as -1.
CursorBefore == IF pre_state = NoneState THEN -1 ELSE pre_state

\* The roster entry d positions after the cursor, cyclically.
EntryAfter(c, d) == collection[((c + d) % Len(collection)) + 1]

\* The roster entries after cursor c, one full cycle, restricted to A.
CycleAfter(c, A) ==
    SelectSeq([d \in 1..Len(collection) |-> EntryAfter(c, d)],
              LAMBDA x : x \in A)

\* C1: round-robin cyclic coverage.  For a non-empty duplicate-free roster,
\* the k-th single pick of a run that started with an uninitialized cursor
\* and always passed available = roster returns roster[(k-1) mod |roster|].
C1_CyclicCoverage ==
    (op \in Picks /\ run >= 1 /\ IsDupFree(collection) /\ collection # <<>>)
        => result = <<collection[((run - 1) % Len(collection)) + 1]>>

C1_Witness ==
    /\ op \in Picks
    /\ run = 2 * Len(collection)
    /\ Len(collection) = 3
    /\ IsDupFree(collection)
    /\ result = <<collection[3]>>

\* C2: round-robin skip-on-exclusion.  A single round-robin pick with a
\* non-empty available returns the first roster entry strictly after the
\* cursor, in cyclic roster order, that is in available, and the cursor
\* becomes that entry's index; so entries that were skipped are not gone
\* back to by a later pick.
C2_SkipOnExclusion ==
    (RoundRobinPicked /\ arg_count = 1) =>
        \E d \in 1..Len(collection) :
            /\ EntryAfter(CursorBefore, d) \in Range(arg_available)
            /\ \A e \in 1..(d - 1) :
                  EntryAfter(CursorBefore, e) \notin Range(arg_available)
            /\ result = <<EntryAfter(CursorBefore, d)>>
            /\ rr_state = (CursorBefore + d) % Len(collection)

\* A pick that skipped exactly one excluded entry of a 3-entry roster.
C2_Witness ==
    /\ RoundRobinPicked
    /\ arg_count = 1
    /\ Len(collection) = 3
    /\ IsDupFree(collection)
    /\ pre_state # NoneState
    /\ rr_state = (pre_state + 2) % 3
    /\ collection[((pre_state + 1) % 3) + 1] \notin Range(arg_available)

\* C3: round-robin honours count.  With count >= 1 and available a
\* duplicate-free subset of a duplicate-free roster, the result is exactly
\* the next min(count, |available|) members of available in cyclic roster
\* order after the cursor, and the cursor ends at the roster index of the
\* last returned item.
C3_HonoursCount ==
    (/\ RoundRobinPicked
     /\ arg_count >= 1
     /\ IsDupFree(arg_available)
     /\ IsDupFree(collection))
        => /\ result = SubSeq(CycleAfter(CursorBefore, Range(arg_available)),
                              1, Min(arg_count, Len(arg_available)))
           /\ rr_state \in 0..(Len(collection) - 1)
           /\ collection[rr_state + 1] = result[Len(result)]

\* Two items returned, wrapping past the end of a 3-entry roster.
C3_Witness ==
    /\ RoundRobinPicked
    /\ arg_count = 2
    /\ Len(result) = 2
    /\ IsDupFree(arg_available)
    /\ IsDupFree(collection)
    /\ Len(collection) = 3
    /\ pre_state # NoneState
    /\ rr_state < pre_state

\* C4: round-robin bounded waiting.  Under single round-robin picks with no
\* reset, roster replacement or policy change in between, a roster member is
\* never available and passed over in |roster| consecutive picks.
C4_BoundedWaiting ==
    \A m \in Range(collection) : waiting[m] < Len(collection)

\* A member of a 3-entry roster that was passed over twice while available.
C4_Witness ==
    /\ Len(collection) = 3
    /\ \E m \in Range(collection) : waiting[m] = 2

\* The member of A that follows x in cyclic roster order.
NextInRoster(x, A) ==
    LET i == CHOOSE j \in 1..Len(collection) : collection[j] = x
    IN Head(CycleAfter(i - 1, A))

\* C5: round-robin cycling inside a fixed active subset.  While the same
\* non-empty subset A of the roster is passed to consecutive single picks,
\* every pick returns a member of A, consecutive picks follow roster order
\* inside A, and any |A| consecutive picks return each member of A exactly
\* once; through the engine and through the orchestrator.
C5_FixedSubsetCycle ==
    same_avail # {} =>
        /\ Range(same_results) \subseteq same_avail
        /\ Len(same_results) >= 1
        /\ \A i \in 1..(Len(same_results) - 1) :
              same_results[i + 1] = NextInRoster(same_results[i], same_avail)
        /\ Len(same_results) = Cardinality(same_avail)
              => /\ IsDupFree(same_results)
                 /\ Range(same_results) = same_avail

\* Two orchestrator picks in a row from a 2-member subset of a 3-entry roster.
C5_Witness ==
    /\ op = "select_assignees"
    /\ Len(collection) = 3
    /\ Cardinality(same_avail) = 2
    /\ Len(same_results) = 2
    /\ Range(same_results) = same_avail

\* max(0, min(count, len(available)))
ExpectedLength ==
    IF Min(arg_count, Len(arg_available)) > 0
    THEN Min(arg_count, Len(arg_available))
    ELSE 0

\* C6: for every policy, roster, available whose items are all in the roster
\* and count, select_from_available returns a list of length
\* min(count, len(available)), or 0 when that is not positive.
C6_ResultLength ==
    (/\ op \in EnginePicks
     /\ policy \in SelectionPolicy
     /\ Range(arg_available) \subseteq Range(collection))
        => /\ ~raised
           /\ Len(result) = ExpectedLength

\* C7: under RANDOM, for a non-empty duplicate-free available and count >= 1
\* the result has min(count, |available|) pairwise distinct items, all from
\* available; when count > |available| it is exactly the available items.
C7_RandomDistinct ==
    (/\ op \in EnginePicks
     /\ policy = RANDOM
     /\ arg_available # <<>>
     /\ IsDupFree(arg_available)
     /\ Range(arg_available) \subseteq Range(collection)
     /\ arg_count >= 1)
        => /\ ~raised
           /\ Len(result) = Min(arg_count, Len(arg_available))
           /\ IsDupFree(result)
           /\ Range(result) \subseteq Range(arg_available)
           /\ arg_count > Len(arg_available)
                 => Range(result) = Range(arg_available)

\* A clamped random pick that returned the available items in another order.
C7_Witness ==
    /\ op = "select_from_available"
    /\ policy = RANDOM
    /\ Len(arg_available) = 2
    /\ IsDupFree(arg_available)
    /\ arg_count = 2
    /\ result = <<arg_available[2], arg_available[1]>>

\* C8 as stated: under ROUND_ROBIN every result is duplicate-free and drawn
\* from available, for every roster set via set_collection, every available
\* accepted by validation and every count.
C8_AnyRosterNoDuplicates ==
    (/\ op \in EnginePicks
     /\ policy = ROUND_ROBIN
     /\ ~raised)
        => /\ IsDupFree(result)
           /\ Range(result) \subseteq Range(arg_available)

\* C8 amended: under ROUND_ROBIN every result is drawn from available, and
\* it is duplicate-free when the roster and available are duplicate-free.
C8_NoDuplicates ==
    (/\ op \in EnginePicks
     /\ policy = ROUND_ROBIN
     /\ ~raised)
        => /\ Range(result) \subseteq Range(arg_available)
           /\ (IsDupFree(collection) /\ IsDupFree(arg_available))
                 => IsDupFree(result)

\* A round-robin pick of two distinct items from a duplicate-free roster.
C8_Witness ==
    /\ RoundRobinPicked
    /\ IsDupFree(collection)
    /\ IsDupFree(arg_available)
    /\ Len(result) = 2
    /\ result[1] # result[2]

\* C9: select_from_available raises whenever the non-empty available holds
\* an identifier that is not in the roster, under either policy and for any
\* count; no result is returned.
C9_UnknownItemRaises ==
    (/\ op \in EnginePicks
     /\ policy \in SelectionPolicy
     /\ \E x \in Range(arg_available) : x \notin Range(collection))
        => /\ raised
           /\ result = <<>>

\* A round-robin pick of two from one known and one unknown identifier.
C9_Witness ==
    /\ op = "select_from_available"
    /\ policy = ROUND_ROBIN
    /\ raised
    /\ arg_count = 2
    /\ \E x \in Range(arg_available) : x \in Range(collection)
    /\ \E x \in Range(arg_available) : x \notin Range(collection)

\* C10: for every count <= 0, under either policy and for any available that
\* is a subset of the roster, select_from_available returns an empty result
\* and raises no error.
C10_NonPositiveCount ==
    (/\ op \in EnginePicks
     /\ policy \in SelectionPolicy
     /\ arg_count <= 0
     /\ Range(arg_available) \subseteq Range(collection))
        => /\ ~raised
           /\ result = <<>>

\* C11: select_from_available([], n), and select(n) on an empty roster,
\* return [] for every n under either policy, raise nothing and leave the
\* roster, the policy, the strategy and the round-robin cursor as they were.
C11_EmptyAvailableNoEffect ==
    [][(op' \in EnginePicks /\ arg_available' = <<>>
        /\ policy \in SelectionPolicy)
          => /\ result' = <<>>
             /\ ~raised'
             /\ collection' = collection
             /\ policy' = policy
             /\ strategy' = strategy
             /\ rr_state' = rr_state]_vars

\* An empty call in the middle of a round-robin cycle.
C11_Witness ==
    /\ op = "select_from_available"
    /\ arg_available = <<>>
    /\ arg_count = 2
    /\ policy = ROUND_ROBIN
    /\ Len(collection) = 3
    /\ pre_state = 1
    /\ rr_state = 1
    /\ result = <<>>

\* C12: set_collection(items) makes the roster equal to items and clears the
\* round-robin cursor whatever it was, also when items is the roster already
\* set; the next single ROUND_ROBIN pick with available = roster returns the
\* first roster element.
C12_SetCollectionResets ==
    [][/\ op' = "set_collection"
          => /\ collection' = arg_available'
             /\ rr_state' = NoneState
       /\ (/\ op = "set_collection"
           /\ policy = ROUND_ROBIN
           /\ collection # <<>>
           /\ op' \in EnginePicks
           /\ arg_available' = collection
           /\ arg_count' = 1)
          => result' = <<collection[1]>>]_vars

\* set_collection in the middle of a round-robin cycle.
C12_Witness ==
    /\ op = "set_collection"
    /\ policy = ROUND_ROBIN
    /\ Len(collection) = 3
    /\ pre_state = 1
    /\ rr_state = NoneState

\* C13: policy-switch reset.  set_policy(ROUND_ROBIN) while the policy is
\* RANDOM makes the policy ROUND_ROBIN with an uninitialized cursor, whatever
\* round-robin picks came before the switch to RANDOM; the next round-robin
\* pick starts from the beginning of the roster.
C13_PolicySwitchResets ==
    [][/\ (op' = "set_policy" /\ arg_policy' = ROUND_ROBIN /\ policy = RANDOM)
          => /\ policy' = ROUND_ROBIN
             /\ strategy' = RoundRobinStrategy
             /\ rr_state' = NoneState
       /\ (op' = "set_policy" /\ arg_policy' = RANDOM
           /\ policy = ROUND_ROBIN)
          => /\ policy' = RANDOM
             /\ strategy' = RandomStrategy
             /\ rr_state' = NoneState
       /\ (/\ op = "set_policy"
           /\ arg_policy = ROUND_ROBIN
           /\ pre_state = NoneState
           /\ collection # <<>>
           /\ op' \in EnginePicks
           /\ arg_available' = collection
           /\ arg_count' = 1)
          => result' = <<collection[1]>>]_vars

\* Back on ROUND_ROBIN after a switch, with a roster to pick from.
C13_Witness ==
    /\ op = "set_policy"
    /\ arg_policy = ROUND_ROBIN
    /\ policy = ROUND_ROBIN
    /\ strategy = RoundRobinStrategy
    /\ rr_state = NoneState
    /\ Len(collection) = 3

\* The outcome the last operation is observed to have had.
ObservedOutcome ==
    [selected |-> result, state |-> rr_state, raised |-> raised,
     attempts |-> attempts]

\* C14: same-policy idempotence.  set_policy(p) with p already the policy
\* changes neither roster, policy, strategy nor cursor and raises nothing; an
\* orchestrator call that asks for ROUND_ROBIN while it is the policy picks
\* from the current cursor, so the cycle goes on.
C14_SamePolicyNoOp ==
    [][/\ (op' = "set_policy" /\ arg_policy' = policy)
          => /\ collection' = collection
             /\ policy' = policy
             /\ strategy' = strategy
             /\ rr_state' = rr_state
             /\ ~raised'
       /\ (/\ op' = "select_assignees"
           /\ arg_policy' = ROUND_ROBIN
           /\ policy = ROUND_ROBIN
           /\ strategy = RoundRobinStrategy
           /\ arg_available' # <<>>
           /\ Range(arg_available') \subseteq Range(collection))
          => /\ pre_state' = rr_state
             /\ result' = SubSeq(CycleAfter(IF rr_state = NoneState THEN -1
                                            ELSE rr_state,
                                            Range(arg_available')),
                                 1, Min(arg_count', Len(arg_available')))]_vars

\* set_policy(ROUND_ROBIN) in the middle of a round-robin cycle.
C14_Witness ==
    /\ op = "set_policy"
    /\ arg_policy = ROUND_ROBIN
    /\ policy = ROUND_ROBIN
    /\ Len(collection) = 3
    /\ pre_state = 1
    /\ rr_state = 1

\* C15: reset semantics.  reset_state() leaves the cursor uninitialized, and
\* a round-robin pick made right after it has the outcome the same pick has
\* on a selector with the same roster, policy ROUND_ROBIN and cursor None.
C15_ResetRestartsCycle ==
    [][/\ op' = "reset_state" => rr_state' = NoneState
       /\ (/\ op = "reset_state"
           /\ policy = ROUND_ROBIN
           /\ strategy = RoundRobinStrategy
           /\ op' \in EnginePicks)
          => ObservedOutcome' \in
                ItemSelector_select_from_available(
                    collection, ROUND_ROBIN, RoundRobinStrategy, NoneState,
                    arg_available', arg_count')]_vars

\* reset_state() with the cursor on the last entry of a 3-entry roster.
C15_Witness ==
    /\ op = "reset_state"
    /\ policy = ROUND_ROBIN
    /\ Len(collection) = 3
    /\ pre_state = 2
    /\ rr_state = NoneState

\* C16: reset_state() changes only the cursor: roster (contents and order),
\* policy and strategy class are the same before and after, under either
\* policy.
C16_ResetFrame ==
    [][op' = "reset_state"
          => /\ collection' = collection
             /\ policy' = policy
             /\ strategy' = strategy
             /\ usernames' = usernames]_vars

\* reset_state() under RANDOM and under ROUND_ROBIN with a roster set.
C16_Witness ==
    /\ op = "reset_state"
    /\ policy \in SelectionPolicy
    /\ strategy = create_strategy(policy)
    /\ IsDupFree(collection)
    /\ Len(collection) = 2
    /\ rr_state = NoneState

\* C17: select(count) is select_from_available(roster, count): from the same
\* state each outcome of one (result, cursor, error) is an outcome of the
\* other, for every roster and count.
C17_SelectIsSelectFromRoster ==
    [][/\ op' = "select"
          => /\ arg_available' = collection
             /\ ObservedOutcome' \in
                   ItemSelector_select_from_available(
                       collection, policy, strategy, rr_state, collection,
                       arg_count')
       /\ (op' = "select_from_available" /\ arg_available' = collection)
          => ObservedOutcome' \in
                ItemSelector_select(collection, policy, strategy, rr_state,
                                    arg_count')]_vars

\* select(2) in the middle of a round-robin cycle.
C17_Witness ==
    /\ op = "select"
    /\ arg_count = 2
    /\ policy = ROUND_ROBIN
    /\ Len(collection) = 3
    /\ pre_state = 1
    /\ result = <<collection[3], collection[1]>>

\* The entries a round-robin call visited: the first `attempts` entries of
\* full_collection after the cursor, cyclically.
Visited ==
    [d \in 1..attempts |->
        arg_full[((CursorBefore + d) % Len(arg_full)) + 1]]

\* C18: every round-robin selection stops after at most 2 x |roster| cursor
\* advances, for any available and count, also when available shares nothing
\* with the full collection or the full collection is empty; when the bound
\* is used up before count items were found, the items found so far are
\* returned and nothing is raised.
C18_BoundedSearch ==
    (op = "strategy_select" /\ strategy = RoundRobinStrategy) =>
        /\ ~raised
        /\ attempts <= 2 * Len(arg_full)
        /\ result = SelectSeq(Visited, LAMBDA x : x \in Range(arg_available))
        /\ Len(result) < Min(arg_count, Len(arg_available))
              => attempts = 2 * Len(arg_full)

\* A search that used up its 4 advances on a 2-entry collection and found
\* nothing.
C18_Witness ==
    /\ op = "strategy_select"
    /\ strategy = RoundRobinStrategy
    /\ Len(arg_full) = 2
    /\ arg_available # <<>>
    /\ arg_count >= 1
    /\ attempts = 4
    /\ result = <<>>

\* C19 as stated: in every state reachable through the public operations the
\* cursor is None or an index i with 0 <= i < |roster|, and then roster[i]
\* is the item a round-robin pick returned last.
C19_CursorNoneOrIndex ==
    [][/\ strategy' = RoundRobinStrategy
          => \/ rr_state' = NoneState
             \/ rr_state' \in 0..(Len(collection') - 1)
       /\ (/\ op' \in EnginePicks
           /\ policy = ROUND_ROBIN
           /\ ~raised'
           /\ result' # <<>>)
          => /\ rr_state' >= 0
             /\ collection[rr_state' + 1] = result'[Len(result')]
       /\ (rr_state' # rr_state /\ rr_state' >= 0)
          => (op' \in EnginePicks /\ result' # <<>>)]_vars

\* C19 amended: the cursor is None, or -1 after a round-robin pick made on
\* an uninitialized cursor that returned nothing (count <= 0, or the call
\* raised), or an index i with 0 <= i < |roster|; the cursor moves to an
\* index only in a pick that returns items, and after a pick from a
\* duplicate-free available roster[i] is the last item returned.
C19_CursorStateSpace ==
    [][/\ strategy' = RoundRobinStrategy
          => \/ rr_state' = NoneState
             \/ rr_state' = -1
             \/ rr_state' \in 0..(Len(collection') - 1)
       /\ (rr_state' = -1 /\ rr_state # -1)
          => /\ rr_state = NoneState
             /\ op' \in EnginePicks
             /\ arg_available' # <<>>
             /\ arg_count' <= 0 \/ raised'
             /\ result' = <<>>
       /\ (/\ op' \in EnginePicks
           /\ policy = ROUND_ROBIN
           /\ ~raised'
           /\ result' # <<>>
           /\ IsDupFree(arg_available'))
          => /\ rr_state' >= 0
             /\ collection[rr_state' + 1] = result'[Len(result')]
       /\ (rr_state' # rr_state /\ rr_state' >= 0)
          => (op' \in EnginePicks /\ result' # <<>>)]_vars

\* A round-robin pick with count 0 on an uninitialized cursor.
C19_Witness ==
    /\ op = "select_from_available"
    /\ policy = ROUND_ROBIN
    /\ arg_available # <<>>
    /\ arg_count = 0
    /\ pre_state = NoneState
    /\ rr_state = -1
    /\ result = <<>>

\* What random.sample can return for available and count alone.
RandomResults(available, count) ==
    IF available = <<>> THEN {<<>>}
    ELSE IF count < 0 THEN {}
    ELSE LET k == Min(count, Len(available)) IN
         {[i \in 1..k |-> available[f[i]]] :
             f \in {g \in [1..k -> 1..Len(available)] :
                      \A i, j \in 1..k : i # j => g[i] # g[j]}}

\* C20: RANDOM carries no state.  Under RANDOM a pick or a reset changes
\* nothing in the selector, and the set of results a pick can return is
\* RandomResults(available, count) in every reachable state, whatever picks,
\* resets and roster replacements came before.
C20_RandomStateless ==
    [][(/\ policy = RANDOM
        /\ strategy = RandomStrategy
        /\ op' \in EnginePicks \cup {"reset_state"})
          => /\ collection' = collection
             /\ policy' = policy
             /\ strategy' = strategy
             /\ rr_state' = rr_state
             /\ rr_state' = NoneState
             /\ (/\ op' \in EnginePicks
                 /\ Range(arg_available') \subseteq Range(collection))
                => /\ raised' <=> RandomResults(arg_available', arg_count') = {}
                   /\ ~raised'
                         => result' \in RandomResults(arg_available', arg_count')
                   /\ {o.selected :
                         o \in {x \in ItemSelector_select_from_available(
                                          collection, policy, strategy,
                                          rr_state, arg_available', arg_count') :
                                  ~x.raised}}
                         = RandomResults(arg_available', arg_count')]_vars

\* A random pick of one item that is not the first of available.
C20_Witness ==
    /\ op = "select_from_available"
    /\ policy = RANDOM
    /\ strategy = RandomStrategy
    /\ Len(arg_available) = 2
    /\ arg_count = 1
    /\ result = <<arg_available[2]>>
    /\ rr_state = NoneState

(***************************************************************************)
(* Properties of the orchestrator                                          *)
(***************************************************************************)
\* C21: _select_assignees with a valid policy, a count of at least one and
\* a non-empty active list whose members all belong to the roster returns
\* without error, leaves the selector's policy equal to the requested one,
\* and returns exactly min(count, |active|) pairwise distinct members of
\* active.
C21_NormalPath ==
    (/\ op = "select_assignees"
     /\ arg_count >= 1
     /\ arg_available # <<>>
     /\ Range(arg_available) \subseteq Range(collection))
    => /\ ~raised
       /\ policy = arg_policy
       /\ Len(result) = Min(arg_count, Len(arg_available))
       /\ Range(result) \subseteq Range(arg_available)
       /\ IsDupFree(result)

\* A round-robin request for two, with two active members of a roster of
\* three: both are returned.
C21_Witness ==
    /\ op = "select_assignees"
    /\ arg_policy = ROUND_ROBIN
    /\ arg_count = 2
    /\ Len(arg_available) = 2
    /\ Range(arg_available) \subseteq Range(collection)
    /\ Len(collection) = 3
    /\ Len(result) = 2

\* The members of active that the roster found at entry does not hold, and
\* the members of active that a list holds.
UnknownToRoster == Range(arg_available) \ Range(arg_full)

ActiveIn(names) == Range(arg_available) \cap Range(names)

\* C22 as stated, every "Roster" read as the selector's roster at entry:
\* when active holds an identifier absent from the roster, the call returns
\* [] if no member of active is in the roster, and otherwise
\* min(count, |active /\ roster|) members of active /\ roster, leaving the
\* selector's roster equal to the configured username list.
C22_DegradeAgainstRoster ==
    (op = "select_assignees" /\ UnknownToRoster # {})
    => IF ActiveIn(arg_full) = {}
       THEN result = <<>>
       ELSE /\ Len(result) = Min(arg_count, Cardinality(ActiveIn(arg_full)))
            /\ Range(result) \subseteq ActiveIn(arg_full)
            /\ collection = usernames

\* C22, amended: when active holds an identifier absent from the selector's
\* roster, the call filters active by the configured username list: it
\* returns [] and leaves the roster alone if no member of active is in
\* that list, and otherwise returns min(count, |active /\ usernames|)
\* members of active /\ usernames, leaving the selector's roster equal to
\* the configured username list.
C22_DegradePath ==
    (op = "select_assignees" /\ UnknownToRoster # {})
    => /\ ~raised
       /\ IF ActiveIn(usernames) = {}
          THEN result = <<>> /\ collection = arg_full
          ELSE /\ Len(result) =
                     Min(arg_count, Cardinality(ActiveIn(usernames)))
               /\ Range(result) \subseteq ActiveIn(usernames)
               /\ collection = usernames

\* Two active members, one of them unknown to a roster that differed from
\* the username list: the call returned the known one and re-synchronized
\* the roster.
C22_Witness ==
    /\ op = "select_assignees"
    /\ Len(arg_available) = 2
    /\ Cardinality(UnknownToRoster) = 1
    /\ arg_full # usernames
    /\ Cardinality(ActiveIn(usernames)) = 1
    /\ Len(result) = 1
    /\ collection = usernames

\* C23: for every valid policy, count >= 1, active list and pair of
\* username list and roster, equal or not, _select_assignees returns a
\* list: no ValueError escapes, the retry included.
C23_NoErrorEscapes ==
    op = "select_assignees" => ~raised

\* The retry ran for a pair that differed, with a roster that held none of
\* the two active members, and returned two assignees.
C23_Witness ==
    /\ op = "select_assignees"
    /\ ~raised
    /\ arg_full # usernames
    /\ Len(arg_available) = 2
    /\ ActiveIn(arg_full) = {}
    /\ Len(result) = 2
    /\ collection = usernames

\* C24: with an empty active list _select_assignees returns [] without
\* error and leaves the selector's policy, strategy, roster and cursor as
\* they were, also when the requested policy is not the current one.
C24_EmptyActiveFrame ==
    [][(op' = "select_assignees" /\ arg_available' = <<>>)
       => /\ result' = <<>>
          /\ ~raised'
          /\ UNCHANGED <<collection, policy, strategy, rr_state, usernames>>]_vars

\* An empty active list with the other policy requested, in the middle of a
\* round-robin cycle.
C24_Witness ==
    /\ op = "select_assignees"
    /\ arg_available = <<>>
    /\ arg_policy = RANDOM
    /\ policy = ROUND_ROBIN
    /\ collection # <<>>
    /\ rr_state >= 0
    /\ result = <<>>

\* C25: set_policy raises for every value outside the policy enumeration,
\* and for a value of the enumeration it returns with the strategy of the
\* matching kind installed.
C25_UnsupportedPolicyRaises ==
    op = "set_policy"
    => IF arg_policy \in SelectionPolicy
       THEN /\ ~raised
            /\ policy = arg_policy
            /\ strategy = (IF arg_policy = RANDOM THEN RandomStrategy
                           ELSE RoundRobinStrategy)
       ELSE raised

(***************************************************************************)
(* Properties of the bot's handlers                                        *)
(***************************************************************************)
\* The entries of a chat in the three tables are the same before and after
\* a step.
ChatUntouched(d) ==
    /\ (d \in DOMAIN CHAT_STATE') = (d \in DOMAIN CHAT_STATE)
    /\ d \in DOMAIN CHAT_STATE => CHAT_STATE'[d] = CHAT_STATE[d]
    /\ (d \in DOMAIN PENDING') = (d \in DOMAIN PENDING)
    /\ d \in DOMAIN PENDING => PENDING'[d] = PENDING[d]
    /\ (d \in EXPECT_CONFIG') = (d \in EXPECT_CONFIG)

\* C26: a handler step for one chat leaves the configuration, selector,
\* expectation flag and pending assignment of every other chat as they
\* were; a chat's configuration is created on its first access, as a fresh
\* UserConfig (with the default participants when /assign was the access),
\* and is never dropped afterwards.
C26_ScopesIndependent ==
    [][/\ \A d \in Chats : d # event'.chat => ChatUntouched(d)
       /\ \A c \in Chats :
            /\ c \in DOMAIN CHAT_STATE => c \in DOMAIN CHAT_STATE'
            /\ (c \notin DOMAIN CHAT_STATE /\ c \in DOMAIN CHAT_STATE')
               => /\ c = event'.chat
                  /\ CHAT_STATE'[c].policy = RANDOM
                  /\ CHAT_STATE'[c].state = NoneState
                  /\ CHAT_STATE'[c].usernames \in {<<>>, DEFAULT_USERNAMES}
                  /\ CHAT_STATE'[c].collection = CHAT_STATE'[c].usernames
      ]_vars

\* Chat 1 has a dialog with a participant toggled on; the last step gave
\* chat 2 its own configuration with the default participants.
C26_Witness ==
    /\ 1 \in DOMAIN PENDING
    /\ PENDING[1].active_selected # {}
    /\ event.chat = 2
    /\ 2 \in DOMAIN CHAT_STATE
    /\ CHAT_STATE[2].usernames = DEFAULT_USERNAMES
    /\ 2 \notin DOMAIN PENDING

\* C27: of two consecutive selections of a chat that are single round-robin
\* picks, with no replacement of the roster by a handler between them and
\* at least two active participants in the second, the second reads
\* another cursor value and returns another participant than the first.
C27_SerializedPicks ==
    (/\ event.branch = "selected"
     /\ event.call.policy = ROUND_ROBIN
     /\ event.call.count = 1
     /\ Len(event.call.active) >= 2
     /\ Len(event.selected) = 1
     /\ event.call.prev # NoPick)
    => /\ event.selected[1] # event.call.prev.item
       /\ event.call.pre # event.call.prev.pre

\* C28: the active set of every pending assignment is a subset of the
\* chat's current username list.
C28_ActiveWithinRoster ==
    \A c \in DOMAIN PENDING :
        PENDING[c].active_selected \subseteq
            (IF c \in DOMAIN CHAT_STATE THEN Range(CHAT_STATE[c].usernames)
             ELSE {})

\* C29: a text message replaces a chat's participant list only when an
\* administrator sent it.
C29_OnlyAdminsConfigure ==
    (event.handler = "handle_text_steps" /\ event.branch = "config")
    => event.user \in ADMIN_USER_IDS

\* C30: after /configure registered its expectation, one text message of the
\* chat is taken as the participant list and no second one; and once that
\* message is handled the chat is no longer in EXPECT_CONFIG.
C30_ConfigConsumedOnce ==
    \A c \in Chats :
        /\ consumed[c] <= 1
        /\ (consumed[c] = 1 /\ tasks[<<"handle_config_input", c>>] = 0)
           => c \notin EXPECT_CONFIG

(***************************************************************************)
(* Properties of failed calls                                              *)
(***************************************************************************)
\* C37: a select_from_available call that raised because an item of
\* available is outside the collection leaves the collection, the policy,
\* the strategy and the cursor as they were, so every later pick has the
\* outcomes it had before the call.
C37_FailedValidationFrame ==
    [][(/\ op' = "select_from_available"
        /\ raised'
        /\ \E i \in 1..Len(arg_available') :
               arg_available'[i] \notin Range(collection))
       => /\ collection' = collection
          /\ policy' = policy
          /\ strategy' = strategy
          /\ rr_state' = rr_state
          /\ \A available \in Availables :
                ItemSelector_select_from_available(
                    collection', policy', strategy', rr_state', available, 1)
                = ItemSelector_select_from_available(
                    collection, policy, strategy, rr_state, available, 1)
      ]_vars

\* A round-robin selector whose cursor has advanced refused a list with an
\* item outside its collection.
C37_Witness ==
    /\ op = "select_from_available"
    /\ raised
    /\ \E i \in 1..Len(arg_available) :
           arg_available[i] \notin Range(collection)
    /\ strategy = RoundRobinStrategy
    /\ policy = ROUND_ROBIN
    /\ rr_state >= 0
    /\ Len(collection) >= 2

\* C38: in every state the strategy is the one that belongs to the policy
\* field: RandomStrategy for RANDOM, RoundRobinStrategy for ROUND_ROBIN.
C38_PolicyMatchesStrategy ==
    \/ policy = RANDOM /\ strategy = RandomStrategy
    \/ policy = ROUND_ROBIN /\ strategy = RoundRobinStrategy

\* The members of names that are in S, in the order of names.
InOrder(names, S) ==
    LET member(x) == x \in S IN SelectSeq(names, member)

\* C39: when a ROUND_ROBIN _select_assignees found an active member outside
\* the roster and some active member in the username list, the retry read
\* an unset cursor over the re-set roster and returned the first
\* min(count, |valid_active|) valid active members in roster order.
C39_DegradeRestartsCycle ==
    (/\ op = "select_assignees"
     /\ arg_policy = ROUND_ROBIN
     /\ UnknownToRoster # {}
     /\ ActiveIn(usernames) # {})
    => LET ordered == InOrder(usernames, ActiveIn(usernames))
           k == Min(arg_count, Cardinality(ActiveIn(usernames)))
       IN /\ ~raised
          /\ collection = usernames
          /\ pre_state = NoneState
          /\ result = SubSeq(ordered, 1, k)

\* The retry returned two members in roster order, the reverse of the
\* order in which the active list named them.
C39_Witness ==
    /\ op = "select_assignees"
    /\ arg_policy = ROUND_ROBIN
    /\ UnknownToRoster # {}
    /\ Len(result) = 2
    /\ result[1] = arg_available[2]
    /\ result[2] = arg_available[1]
    /\ Len(usernames) = 3

(***************************************************************************)
(* Properties of the bot's tables and dialog                               *)
(***************************************************************************)
\* C36: after every handler step the selector's roster of each chat is its
\* username list, and a step that replaced the list of a chat (a text taken
\* as the participant list, or the default participants) left the chat's
\* cursor unset.
C36_RosterIsUsernameList ==
    [][\A c \in DOMAIN CHAT_STATE' :
         /\ CHAT_STATE'[c].collection = CHAT_STATE'[c].usernames
         /\ (\/ /\ c \in DOMAIN CHAT_STATE
                /\ CHAT_STATE'[c].usernames # CHAT_STATE[c].usernames
             \/ /\ event'.chat = c
                /\ event'.handler = "handle_text_steps"
                /\ event'.branch = "config")
            => CHAT_STATE'[c].state = NoneState
      ]_vars

\* A text replaced the participant list of a chat whose selector had
\* switched to round-robin in an earlier selection.
C36_Witness ==
    /\ event.handler = "handle_text_steps"
    /\ event.branch = "config"
    /\ 1 \in DOMAIN CHAT_STATE
    /\ CHAT_STATE[1].policy = ROUND_ROBIN
    /\ CHAT_STATE[1].usernames = <<2>>
    /\ CHAT_STATE[1].collection = <<2>>
    /\ CHAT_STATE[1].state = NoneState

\* C31: when a description message has made the handler call
\* _select_assignees, the chat's pending assignment holds a non-empty active
\* set, a policy set by a policy callback and a count of 1, 2 or 3 set by a
\* count callback.
C31_SelectionAfterAllSteps ==
    event.branch \in {"selected", "raised"}
    => /\ event.chat \in DOMAIN PENDING
       /\ PENDING[event.chat].active_selected # {}
       /\ PENDING[event.chat].policy \in SelectionPolicy
       /\ PENDING[event.chat].count \in {1, 2, 3}

\* C32: a description message makes the handler select only when the
\* chat's pending assignment has taken no description yet, that is, when
\* none was accepted since /assign last started the dialog.
C32_OneSelectionPerDialog ==
    [][(/\ event'.handler = "handle_text_steps"
        /\ event'.branch \in {"selected", "raised"}
        /\ event'.chat \in DOMAIN PENDING)
       => PENDING[event'.chat].description = ""
      ]_vars

\* C33: after the cancel button and after handle_description_input has
\* returned the chat has no pending assignment, and after /assign started
\* the dialog the pending assignment has an empty active set, no policy,
\* no count, no description and the step "configure".
C33_DialogEndsAndRestarts ==
    /\ (event.handler = "other"
        /\ event.branch \in {"cancel", "description_done"})
       => event.chat \notin DOMAIN PENDING
    /\ (event.handler = "other" /\ event.branch = "dialog_started")
       => /\ event.chat \in DOMAIN PENDING
          /\ PENDING[event.chat] =
                [active_selected |-> {}, policy |-> None, count |-> 0,
                 description |-> "", step |-> "configure"]

\* handle_description_input has returned after a round-robin selection in
\* a chat with a channel.
C33_Witness ==
    /\ event.handler = "other"
    /\ event.branch = "description_done"
    /\ event.chat \notin DOMAIN PENDING
    /\ ASSIGN_CHANNEL_ID # NoChannel
    /\ event.chat \in DOMAIN CHAT_STATE
    /\ CHAT_STATE[event.chat].policy = ROUND_ROBIN
    /\ CHAT_STATE[event.chat].state >= 0

\* C34: without a target channel a description message makes no selection:
\* the chat's roster, policy, strategy and cursor after the step are those
\* before it (those of a new UserConfig when the chat had none).
C34_NoChannelNoSelection ==
    [][(/\ ASSIGN_CHANNEL_ID = NoChannel
        /\ event'.handler = "handle_text_steps"
        /\ event'.branch \in {"no_channel", "selected", "raised"})
       => /\ event'.branch = "no_channel"
          /\ event'.chat \in DOMAIN CHAT_STATE'
          /\ CHAT_STATE'[event'.chat] =
                (IF event'.chat \in DOMAIN CHAT_STATE
                 THEN CHAT_STATE[event'.chat]
                 ELSE [usernames |-> <<>>, collection |-> <<>>,
                       policy |-> RANDOM, strategy |-> RandomStrategy,
                       state |-> NoneState])
      ]_vars

\* A dialog that asked for round-robin over two participants took its
\* description without a channel; the selector is still on its first policy.
C34_Witness ==
    /\ ASSIGN_CHANNEL_ID = NoChannel
    /\ event.handler = "handle_text_steps"
    /\ event.branch = "no_channel"
    /\ event.chat \in DOMAIN PENDING
    /\ PENDING[event.chat].policy = ROUND_ROBIN
    /\ Cardinality(PENDING[event.chat].active_selected) = 2
    /\ CHAT_STATE[event.chat].policy = RANDOM
    /\ CHAT_STATE[event.chat].state = NoneState

(***************************************************************************)
(* Properties of _post_assignment                                          *)
(***************************************************************************)
\* The assignment messages (text and poll) among what went out.
Posted(kind) == {i \in 1..Len(outbox) : outbox[i].kind = kind}

\* C35: a poll went out only right after the assignment text went out, to
\* the same destination, linked to it, with one option per assignee; when
\* the assignee list is empty, or the text did not go out, no poll goes
\* out and nothing reaches the target channel.
C35_PostingOrder ==
    /\ \A i \in Posted("poll") :
          /\ i > 1
          /\ outbox[i - 1].kind = "text"
          /\ outbox[i].reply_to = i - 1
          /\ outbox[i].to = outbox[i - 1].to
          /\ outbox[i].to = (IF target_chat = None THEN MessageChat
                             ELSE target_chat)
          /\ outbox[i].options = assignees
    /\ Cardinality(Posted("text")) <= 1
    /\ Cardinality(Posted("poll")) <= 1
    /\ assignees = <<>> => Posted("text") = {}
    /\ (Posted("text") = {} /\ post_pc \in {"text_failed", "done"})
       => /\ Posted("poll") = {}
          /\ \A i \in 1..Len(outbox) :
                /\ outbox[i].kind = "reply"
                /\ target_chat # None => outbox[i].to # target_chat

\* Two assignees were posted to the channel, and the poll followed.
C35_Witness ==
    /\ post_pc = "done"
    /\ target_chat = "@channel"
    /\ Len(assignees) = 2
    /\ Len(outbox) = 2
    /\ outbox[1].kind = "text"
    /\ outbox[2].kind = "poll"
    /\ Len(outbox[2].options) = 2

====
